---- MODULE Spec2Model ----
(***************************************************************************)
(* A model of engine/cleanup_engine.py: the routing engine process_run,   *)
(* its classifiers (match_keyword, match_extension, match_mime), the       *)
(* collision-safe namer make_collision_safe_target and the mover do_move,  *)
(* over an explicit filesystem (a set of directories and a map from file   *)
(* paths to file contents).                                                *)
(*                                                                         *)
(* Text is a sequence of one-character strings, so that lower(), the       *)
(* substring test, Path.suffix / Path.stem, str(Path) and startswith are   *)
(* computed as the code computes them.  A Path is the sequence of its      *)
(* components (all paths of the model are absolute).                       *)
(***************************************************************************)
EXTENDS Integers, Sequences, FiniteSets, TLC

VARIABLES
    dry_run,        \* process_run's dry_run argument
    keyword_map,    \* config["routing"]["keyword_map"], in insertion order
    extension_map,  \* config["routing"]["extension_map"]
    mime_map,       \* config["routing"]["mime_map"]
    entries,        \* the names downloads_path.iterdir() yields (a set: the order is the OS's)
    fsDirs,         \* the directories that exist
    fsFiles,        \* the files that exist: path |-> content
    files,          \* process_run's local `files`
    idx,            \* position of the for loop over `files` (next file to process)
    counts,         \* process_run's local `counts`
    actions,        \* process_run's local `actions`
    sniffs,         \* per processed file, what detect_mime returned (None: not called)
    pc,             \* "start" | "loop" | "done"
    fs0Dirs,        \* the directories that existed when process_run was called
    fs0Files        \* the files that existed when process_run was called

vars == <<dry_run, keyword_map, extension_map, mime_map, entries, fsDirs, fsFiles,
          files, idx, counts, actions, sniffs, pc, fs0Dirs, fs0Files>>

----------------------------------------------------------------------------
(* Bounds *)

\* the largest number of directory entries of the downloads directory
MaxFiles == 2

----------------------------------------------------------------------------
(* Text *)

\* str.lower() on the letters the model uses
LowerChar(c) ==
    CASE c = "R" -> "r"
      [] c = "T" -> "t"
      [] OTHER -> c

lower(s) == [i \in 1..Len(s) |-> LowerChar(s[i])]

\* the code point of a character: what Python's string comparison orders by
CodePoint(c) ==
    CASE c = " " -> 32 [] c = "&" -> 38 [] c = "(" -> 40 [] c = ")" -> 41
      [] c = "." -> 46 [] c = "/" -> 47
      [] c = "0" -> 48 [] c = "1" -> 49 [] c = "2" -> 50 [] c = "3" -> 51
      [] c = "4" -> 52 [] c = "5" -> 53 [] c = "6" -> 54 [] c = "7" -> 55
      [] c = "8" -> 56 [] c = "9" -> 57
      [] c = "R" -> 82 [] c = "T" -> 84
      [] c = "a" -> 97 [] c = "b" -> 98 [] c = "d" -> 100 [] c = "e" -> 101
      [] c = "h" -> 104 [] c = "i" -> 105 [] c = "k" -> 107 [] c = "l" -> 108
      [] c = "p" -> 112 [] c = "r" -> 114 [] c = "t" -> 116
      [] c = "x" -> 120

\* s < t in Python's ordering of str
RECURSIVE StrLess(_, _)
StrLess(s, t) ==
    IF t = <<>> THEN FALSE
    ELSE IF s = <<>> THEN TRUE
    ELSE IF CodePoint(Head(s)) # CodePoint(Head(t))
         THEN CodePoint(Head(s)) < CodePoint(Head(t))
    ELSE StrLess(Tail(s), Tail(t))

\* s.startswith(t)
StartsWith(s, t) == Len(t) <= Len(s) /\ SubSeq(s, 1, Len(t)) = t

\* `t in s` for str
Contains(s, t) ==
    \E i \in 1..(Len(s) - Len(t) + 1) : SubSeq(s, i, i + Len(t) - 1) = t

\* f"{counter}": the decimal digits of a positive integer
DigitChar(d) ==
    CASE d = 0 -> "0" [] d = 1 -> "1" [] d = 2 -> "2" [] d = 3 -> "3" [] d = 4 -> "4"
      [] d = 5 -> "5" [] d = 6 -> "6" [] d = 7 -> "7" [] d = 8 -> "8" [] d = 9 -> "9"

RECURSIVE ToDecimal(_)
ToDecimal(n) ==
    IF n < 10 THEN <<DigitChar(n)>>
    ELSE Append(ToDecimal(n \div 10), DigitChar(n % 10))

\* the index of the last "." of a name, 0 when there is none (str.rfind, 1-based)
LastDot(name) ==
    LET dots == {i \in 1..Len(name) : name[i] = "."}
    IN  IF dots = {} THEN 0 ELSE CHOOSE i \in dots : \A j \in dots : j <= i

\* pathlib's PurePath.suffix: from the last dot, unless the name starts or ends with it
PathSuffix(name) ==
    LET i == LastDot(name)
    IN  IF 1 < i /\ i < Len(name) THEN SubSeq(name, i, Len(name)) ELSE <<>>

\* pathlib's PurePath.stem
PathStem(name) ==
    LET i == LastDot(name)
    IN  IF 1 < i /\ i < Len(name) THEN SubSeq(name, 1, i - 1) ELSE name

\* str.lstrip(".")
RECURSIVE LStripDots(_)
LStripDots(s) ==
    IF s # <<>> /\ Head(s) = "." THEN LStripDots(Tail(s)) ELSE s

----------------------------------------------------------------------------
(* Paths *)

\* Path(text): the components of an absolute path text, empty components dropped
RECURSIVE SplitPath(_, _, _)
SplitPath(text, cur, acc) ==
    IF text = <<>> THEN (IF cur = <<>> THEN acc ELSE Append(acc, cur))
    ELSE IF Head(text) = "/"
         THEN SplitPath(Tail(text), <<>>, IF cur = <<>> THEN acc ELSE Append(acc, cur))
    ELSE SplitPath(Tail(text), Append(cur, Head(text)), acc)

PathOf(text) == SplitPath(text, <<>>, <<>>)

\* str(path)
RECURSIVE StrOf(_)
StrOf(path) ==
    IF path = <<>> THEN <<>>
    ELSE StrOf(SubSeq(path, 1, Len(path) - 1)) \o <<"/">> \o path[Len(path)]

\* path.parent
Parent(path) == SubSeq(path, 1, Len(path) - 1)

\* the path and all its ancestors below the root
Ancestors(path) == {SubSeq(path, 1, n) : n \in 1..Len(path)}

\* path.exists()
Exists(path, F, D) == path \in D \/ path \in DOMAIN F

\* path.mkdir(parents=True, exist_ok=True)
Mkdir(path, D) == D \cup Ancestors(path)

----------------------------------------------------------------------------
(* Values *)

\* a Python value that is a str, or None
Str(t) == [isStr |-> TRUE, text |-> t]
NoneVal == [isStr |-> FALSE, text |-> <<>>]

\* Python truthiness of a str-or-None value: None and "" are falsy
Truthy(v) == v.isStr /\ v.text # <<>>

\* dict.get(key) on a map kept as a sequence of [key, target] items with distinct keys
Get(map, k) ==
    IF \E i \in 1..Len(map) : map[i].key = k
    THEN map[CHOOSE i \in 1..Len(map) : map[i].key = k].target
    ELSE NoneVal

\* the filesystem map with one file added or replaced, and with one file removed
Put(F, p, v) == [q \in (DOMAIN F) \cup {p} |-> IF q = p THEN v ELSE F[q]]
Remove(F, p) == [q \in (DOMAIN F) \ {p} |-> F[q]]

----------------------------------------------------------------------------
(* The configuration's two paths and the calendar date *)

\* expand_path(paths["downloads"])
downloads == PathOf(<<"/", "d", "l">>)

\* expand_path(paths["archive_base"])
archive_base == PathOf(<<"/", "a">>)

\* datetime.date.today().isoformat(), one path component
today == <<"d">>

----------------------------------------------------------------------------
(* The functions of cleanup_engine.py *)

\* expand_path: a non-str raises ValueError, a forbidden pattern raises ValueError, else
\* the Path of the text (the targets of the model hold no ~ and no $VAR to expand, and
\* no backquote, the fifth forbidden pattern)
expand_path(raw) ==
    IF ~raw.isStr THEN [ok |-> FALSE, path |-> <<>>]
    ELSE IF \/ Contains(raw.text, <<"$", "(">>)
            \/ \E c \in {";", "|", "&"} : Contains(raw.text, <<c>>)
         THEN [ok |-> FALSE, path |-> <<>>]
    ELSE [ok |-> TRUE, path |-> PathOf(raw.text)]

\* sorted(files, key=lambda file: file.name.lower()): Python's sort is stable, so an
\* element goes after the elements whose key is not greater
Insert(sorted, x) ==
    LET later == {i \in 1..Len(sorted) : StrLess(lower(x), lower(sorted[i]))}
        at    == IF later = {} THEN Len(sorted) + 1
                 ELSE CHOOSE i \in later : \A j \in later : i <= j
    IN  SubSeq(sorted, 1, at - 1) \o <<x>> \o SubSeq(sorted, at, Len(sorted))

RECURSIVE StableSort(_)
StableSort(s) ==
    IF s = <<>> THEN <<>>
    ELSE Insert(StableSort(SubSeq(s, 1, Len(s) - 1)), s[Len(s)])

\* the loop of discover_files: hidden names are skipped (every entry of the model is a
\* regular file, so is_file() holds)
RECURSIVE Visible(_)
Visible(listing) ==
    IF listing = <<>> THEN <<>>
    ELSE IF Head(Head(listing)) = "." THEN Visible(Tail(listing))
    ELSE <<Head(listing)>> \o Visible(Tail(listing))

\* discover_files(downloads_path), `listing` being the order iterdir() yields
discover_files(listing, D) ==
    IF downloads \notin D THEN <<>> ELSE StableSort(Visible(listing))

\* the orders in which iterdir() can yield a set of names
Orders(S) ==
    {l \in [1..Cardinality(S) -> S] : \A i, j \in 1..Cardinality(S) : l[i] = l[j] => i = j}

\* match_keyword: the first item, in insertion order, whose lowercased key is in the
\* lowercased filename; (key, rule.get("target")) or (None, None)
match_keyword(filename, kmap) ==
    LET lower_name == lower(filename)
        hits == {i \in 1..Len(kmap) : Contains(lower_name, lower(kmap[i].key))}
    IN  IF hits = {} THEN [key |-> NoneVal, target |-> NoneVal]
        ELSE LET i == CHOOSE h \in hits : \A j \in hits : h <= j
             IN  [key |-> Str(kmap[i].key), target |-> kmap[i].target]

\* match_extension
match_extension(filename, emap) ==
    LET suffix == LStripDots(lower(PathSuffix(filename)))
    IN  IF suffix = <<>> THEN [key |-> NoneVal, target |-> NoneVal]
        ELSE IF Truthy(Get(emap, suffix))
             THEN [key |-> Str(suffix), target |-> Get(emap, suffix)]
        ELSE [key |-> NoneVal, target |-> NoneVal]

\* mime_str.split("/", 1)[0]
MimePrefix(mime_str) ==
    LET slashes == {i \in 1..Len(mime_str) : mime_str[i] = "/"}
    IN  IF slashes = {} THEN mime_str
        ELSE SubSeq(mime_str, 1, (CHOOSE i \in slashes : \A j \in slashes : i <= j) - 1)

\* match_mime
match_mime(mime_str, mmap) ==
    IF mime_str = <<>> THEN [key |-> NoneVal, target |-> NoneVal]
    ELSE IF Truthy(Get(mmap, mime_str))
         THEN [key |-> Str(mime_str), target |-> Get(mmap, mime_str)]
    ELSE IF Truthy(Get(mmap, MimePrefix(mime_str)))
         THEN [key |-> Str(MimePrefix(mime_str)), target |-> Get(mmap, MimePrefix(mime_str))]
    ELSE [key |-> NoneVal, target |-> NoneVal]

\* destination_dir / f"{stem} ({counter}){suffix}"
Candidate(destination_dir, filename, counter) ==
    Append(destination_dir,
           PathStem(filename) \o <<" ", "(">> \o ToDecimal(counter) \o <<")">>
               \o PathSuffix(filename))

\* the while loop of make_collision_safe_target, from `counter` on
RECURSIVE Probe(_, _, _, _, _)
Probe(destination_dir, filename, counter, F, D) ==
    IF ~Exists(Candidate(destination_dir, filename, counter), F, D)
    THEN Candidate(destination_dir, filename, counter)
    ELSE Probe(destination_dir, filename, counter + 1, F, D)

\* make_collision_safe_target without the loop: the first numbered name, taken or not
TargetWithoutProbing(destination_dir, filename, F, D) ==
    IF ~Exists(Append(destination_dir, filename), F, D)
    THEN Append(destination_dir, filename)
    ELSE Candidate(destination_dir, filename, 1)

\* make_collision_safe_target, on the filesystem (F, D)
make_collision_safe_target(destination_dir, filename, F, D) ==
    IF ~Exists(Append(destination_dir, filename), F, D)
    THEN Append(destination_dir, filename)
    ELSE Probe(destination_dir, filename, 1, F, D)

\* What the two library calls of do_move can do to a regular file:
\*   "replaced"  os.replace succeeds (an atomic rename);
\*   "moved"     os.replace raises OSError, shutil.move succeeds;
\*   "failed"    both raise, nothing was written (os.rename and the open of the copy fail);
\*   "partial"   shutil.move's copy raises midway: the destination holds part of the file;
\*   "copied"    shutil.move's copy succeeds and its os.unlink(src) raises.
MoveOutcomes == {"replaced", "moved", "failed", "partial", "copied"}

\* do_move(src, destination) under one outcome: [ok, F, D]; ~ok is the exception re-raised
do_move(src, destination, outcome, F, D) ==
    LET D1 == Mkdir(Parent(destination), D)
    IN  CASE outcome \in {"replaced", "moved"} ->
                [ok |-> TRUE, F |-> Put(Remove(F, src), destination, F[src]), D |-> D1]
          [] outcome = "failed" ->
                [ok |-> FALSE, F |-> F, D |-> D1]
          [] outcome = "partial" ->
                [ok |-> FALSE,
                 F |-> Put(F, destination, [id |-> F[src].id, complete |-> FALSE]),
                 D |-> D1]
          [] outcome = "copied" ->
                [ok |-> FALSE, F |-> Put(F, destination, F[src]), D |-> D1]

----------------------------------------------------------------------------
(* process_run *)

\* the stage tags of an action and the counter each one increments
CounterOf(stage) ==
    CASE stage = "keyword" -> "keyword"
      [] stage = "extension" -> "extension"
      [] stage = "mime" -> "mime"
      [] stage = "archive" -> "archived"

\* one of the three rule stages once its match is known: the target is expanded, the
\* destination named and the stage's counter incremented; expand_path raising leaves
\* the try block before the counter is touched
Route(stage, match, filename, F, D) ==
    LET ep == expand_path(match.target)
    IN  IF ~ep.ok
        THEN [raised |-> TRUE, stage |-> stage, rule |-> match.key, destination |-> <<>>]
        ELSE [raised |-> FALSE, stage |-> stage, rule |-> match.key,
              destination |-> make_collision_safe_target(ep.path, filename, F, D)]

\* the classification of one file: keyword, then extension, then mime, then the
\* archive fallback; `sniffed` tells whether detect_mime was called
Classify(filename, mime_magic, kmap, emap, mmap, F, D) ==
    LET kw == match_keyword(filename, kmap)
        ex == match_extension(filename, emap)
        mm == match_mime(mime_magic, mmap)
    IN  IF Truthy(kw.key)
        THEN [sniffed |-> FALSE] @@ Route("keyword", kw, filename, F, D)
        ELSE IF Truthy(ex.key)
        THEN [sniffed |-> FALSE] @@ Route("extension", ex, filename, F, D)
        ELSE IF Truthy(mm.key)
        THEN [sniffed |-> TRUE] @@ Route("mime", mm, filename, F, D)
        ELSE [sniffed |-> TRUE, raised |-> FALSE, stage |-> "archive",
              rule |-> Str(<<"archive_fallback">>),
              destination |->
                  make_collision_safe_target(Append(archive_base, today), filename, F, D)]

\* may process_run create the missing parent of a destination?
MayCreateParent(destination_parent) ==
    StartsWith(StrOf(destination_parent), StrOf(archive_base))

\* the entry of a file that was classified, planned (dry run) or moved (execute); the
\* execute branch stores str() of the two paths, the model keeps the paths
DoneAction(c, src) ==
    [stage |-> c.stage, rule |-> c.rule, src |-> src, destination |-> c.destination,
     message |-> ""]

\* the entry appended for a file whose processing raised
ErrorAction(src, message) ==
    [stage |-> "error", rule |-> NoneVal, src |-> src, destination |-> <<>>,
     message |-> message]

\* Plan creating the destination's parent, as the execute branch does
PlanCreatesParent(c, src, F, D) ==
    [raised |-> FALSE, message |-> "", action |-> DoneAction(c, src), F |-> F,
     D |-> Mkdir(Parent(c.destination), D)]

\* the dry_run branch of the loop body: the action is recorded, nothing else happens
Plan(c, src, F, D) ==
    [raised |-> FALSE, message |-> "", action |-> DoneAction(c, src), F |-> F, D |-> D]

\* the execute branch of the loop body: the parent check, then do_move
Execute(c, src, outcome, F, D) ==
    LET destination_parent == Parent(c.destination)
        missing == ~Exists(destination_parent, F, D)
        D1 == IF missing THEN Mkdir(destination_parent, D) ELSE D
        mv == do_move(src, c.destination, outcome, F, D1)
    IN  IF missing /\ ~MayCreateParent(destination_parent)
        THEN [raised |-> TRUE, message |-> "RuntimeError", action |-> DoneAction(c, src),
              F |-> F, D |-> D]
        ELSE [raised |-> ~mv.ok, message |-> IF mv.ok THEN "" ELSE "OSError",
              action |-> DoneAction(c, src), F |-> mv.F, D |-> mv.D]

\* the try block of the loop body for one file: what it raised, the action it would
\* append, the counters and the filesystem it leaves
TryBlock(filename, mime_magic, outcome, dry, kmap, emap, mmap, cnt, F, D) ==
    LET src == Append(downloads, filename)
        c   == Classify(filename, mime_magic, kmap, emap, mmap, F, D)
        r   == IF dry THEN Plan(c, src, F, D) ELSE Execute(c, src, outcome, F, D)
    IN  IF c.raised
        THEN [raised |-> TRUE, message |-> "ValueError", action |-> ErrorAction(src, ""),
              counts |-> cnt, sniffed |-> c.sniffed, F |-> F, D |-> D]
        ELSE [raised |-> r.raised, message |-> r.message, action |-> r.action,
              counts |-> [cnt EXCEPT ![CounterOf(c.stage)] = cnt[CounterOf(c.stage)] + 1],
              sniffed |-> c.sniffed, F |-> r.F, D |-> r.D]

\* ExceptClause with the error swallowed: counted, but no entry appended
ExceptClauseSwallows(t, src) ==
    IF t.raised
    THEN [appended |-> <<>>,
          counts |-> [t.counts EXCEPT !["errors"] = t.counts["errors"] + 1]]
    ELSE [appended |-> <<t.action>>, counts |-> t.counts]

\* the end of the loop body: the except clause counts and records an error, otherwise
\* the try block's last statement has appended its action
ExceptClause(t, src) ==
    IF t.raised
    THEN [appended |-> <<ErrorAction(src, t.message)>>,
          counts |-> [t.counts EXCEPT !["errors"] = t.counts["errors"] + 1]]
    ELSE [appended |-> <<t.action>>, counts |-> t.counts]

----------------------------------------------------------------------------
(* The inputs of a run *)

\* file names of the downloads directory: "R.T", "r.t", "r (1).t", "x", ".h"
Names ==
    { <<"R", ".", "T">>, <<"r", ".", "t">>, <<"r", " ", "(", "1", ")", ".", "t">>,
      <<"x">>, <<".", "h">> }

\* configured target directories: /k and /e exist unless the run starts without /e;
\* /ab is a sibling of the archive root /a and does not exist; "/e&" is refused by
\* expand_path
TargetK == Str(<<"/", "k">>)
TargetE == Str(<<"/", "e">>)
TargetAb == Str(<<"/", "a", "b">>)
TargetBad == Str(<<"/", "e", "&">>)

\* keyword maps: none; "R." before "t"; an empty key before "r."; a rule with no target
KeywordMaps ==
    { <<>>,
      << [key |-> <<"R", ".">>, target |-> TargetK], [key |-> <<"t">>, target |-> TargetE] >>,
      << [key |-> <<>>, target |-> TargetK], [key |-> <<"r", ".">>, target |-> TargetK] >>,
      << [key |-> <<"r", ".">>, target |-> NoneVal] >> }

\* extension maps: none; t to /e; t to /ab
ExtensionMaps ==
    { <<>>,
      << [key |-> <<"t">>, target |-> TargetE] >>,
      << [key |-> <<"t">>, target |-> TargetAb] >> }

\* mime maps: none; i/p to /k before i to /e; i to "/e&"
MimeMaps ==
    { <<>>,
      << [key |-> <<"i", "/", "p">>, target |-> TargetK], [key |-> <<"i">>, target |-> TargetE] >>,
      << [key |-> <<"i">>, target |-> TargetBad] >> }

\* what detect_mime can return: "" and "i/p"
MimeTypes == { <<>>, <<"i", "/", "p">> }

\* the files a run may find in /e before it starts
PreExisting ==
    { {}, { <<<<"e">>, <<"r", ".", "t">>>> } }

\* a complete file, named by the path it had when the run started
FileAt(p) == [id |-> p, complete |-> TRUE]

Init ==
    /\ dry_run \in BOOLEAN
    /\ keyword_map \in KeywordMaps
    /\ extension_map \in ExtensionMaps
    /\ mime_map \in MimeMaps
    /\ entries \in {S \in SUBSET Names : Cardinality(S) <= MaxFiles}
    /\ \E hasDownloads \in BOOLEAN, hasE \in BOOLEAN, pre \in PreExisting :
          /\ ~hasDownloads => entries = {}
          /\ ~hasE => pre = {}
          /\ fsDirs = {archive_base, PathOf(TargetK.text)}
                         \cup (IF hasDownloads THEN {downloads} ELSE {})
                         \cup (IF hasE THEN {PathOf(TargetE.text)} ELSE {})
          /\ fsFiles = [p \in {Append(downloads, n) : n \in entries} \cup pre |-> FileAt(p)]
    /\ fs0Dirs = fsDirs
    /\ fs0Files = fsFiles
    /\ files = <<>>
    /\ idx = 1
    /\ counts = [scanned |-> 0, keyword |-> 0, extension |-> 0, mime |-> 0,
                 archived |-> 0, errors |-> 0]
    /\ actions = <<>>
    /\ sniffs = <<>>
    /\ pc = "start"

\* files = discover_files(downloads); counts["scanned"] = len(files)
Discover ==
    /\ pc = "start"
    /\ \E listing \in Orders(entries) :
          files' = discover_files(listing, fsDirs)
    /\ counts' = [counts EXCEPT !["scanned"] = Len(files')]
    /\ pc' = "loop"
    /\ UNCHANGED <<dry_run, keyword_map, extension_map, mime_map, entries, fsDirs, fsFiles,
                   idx, actions, sniffs, fs0Dirs, fs0Files>>

\* one iteration of `for file in files`
ProcessFile ==
    /\ pc = "loop"
    /\ idx <= Len(files)
    /\ \E mime_magic \in MimeTypes, outcome \in MoveOutcomes :
          LET t == TryBlock(files[idx], mime_magic, outcome, dry_run, keyword_map,
                            extension_map, mime_map, counts, fsFiles, fsDirs)
              e == ExceptClause(t, Append(downloads, files[idx]))
          IN  /\ counts' = e.counts
              /\ actions' = actions \o e.appended
              /\ sniffs' = Append(sniffs, IF t.sniffed THEN Str(mime_magic) ELSE NoneVal)
              /\ fsFiles' = t.F
              /\ fsDirs' = t.D
    /\ idx' = idx + 1
    /\ UNCHANGED <<dry_run, keyword_map, extension_map, mime_map, entries, files, pc,
                   fs0Dirs, fs0Files>>

\* the loop is over: return summary
Finish ==
    /\ pc = "loop"
    /\ idx > Len(files)
    /\ pc' = "done"
    /\ UNCHANGED <<dry_run, keyword_map, extension_map, mime_map, entries, fsDirs, fsFiles,
                   files, idx, counts, actions, sniffs, fs0Dirs, fs0Files>>

Next == Discover \/ ProcessFile \/ Finish

Spec == Init /\ [][Next]_vars

----------------------------------------------------------------------------
(* The claims *)

\* the source path of the i-th discovered file
SrcOf(i) == Append(downloads, files[i])

\* the positions of the actions recorded so far, and those not tagged error
Recorded == 1..Len(actions)
Routed == {i \in Recorded : actions[i].stage # "error"}

\* C1: the actions list holds exactly one entry per discovered file, in processing
\* order: after i files it has i entries, the i-th entry's source is the i-th discovered
\* file, and at the end its length is counts.scanned, the number of visible entries; a
\* file whose processing raised has one error-tagged entry (the errors counter counts
\* them) and the files after it are processed all the same.
C1_OneActionPerFile ==
    /\ pc # "start" =>
          /\ Len(actions) = idx - 1
          /\ \A i \in Recorded : i <= Len(files) /\ actions[i].src = SrcOf(i)
          /\ counts["errors"] = Cardinality(Recorded \ Routed)
    /\ pc = "done" =>
          /\ Len(actions) = counts["scanned"]
          /\ Len(actions) = Cardinality({n \in entries : Head(n) # "."})
          /\ {files[i] : i \in Recorded} = {n \in entries : Head(n) # "."}

\* C1's case: an execute run is over, its first file failed in the move and its second
\* file was routed
C1_Witness ==
    /\ pc = "done" /\ ~dry_run /\ Len(actions) = 2
    /\ actions[1].stage = "error" /\ actions[1].message = "OSError"
    /\ actions[2].stage # "error"

\* the keys of a rule map some of whose lowercased text is in the lowercased name
KeywordHits(name) ==
    {i \in 1..Len(keyword_map) : Contains(lower(name), lower(keyword_map[i].key))}

\* the name's lowercased suffix, without its dot, is a key of the extension map
ExtensionHit(name) ==
    \E i \in 1..Len(extension_map) :
        extension_map[i].key = LStripDots(lower(PathSuffix(name)))

\* the detected content type, or else its primary category, is a key of the mime map
MimeHit(sniff) ==
    /\ sniff.isStr /\ sniff.text # <<>>
    /\ \E i \in 1..Len(mime_map) :
          mime_map[i].key = sniff.text \/ mime_map[i].key = MimePrefix(sniff.text)

\* the category the precedence rule gives a file
ExpectedStage(name, sniff) ==
    IF KeywordHits(name) # {} THEN "keyword"
    ELSE IF ExtensionHit(name) THEN "extension"
    ELSE IF MimeHit(sniff) THEN "mime"
    ELSE "archive"

\* C2: every routed file is tagged by the fixed precedence: keyword whenever some keyword
\* key is a case-insensitive substring of its name, otherwise extension whenever its
\* lowercased suffix is a key of the extension map, otherwise mime whenever its detected
\* content type (exact, else its primary category) is a key of the mime map, otherwise
\* archive.
C2_FixedPrecedence ==
    \A i \in Routed : actions[i].stage = ExpectedStage(files[i], sniffs[i])

\* C3: each processed file has incremented exactly one of the four category counters:
\* they sum to the number of files processed, and to counts.scanned when the run is over.
C3_CategoryCountersSum ==
    LET sum == counts["keyword"] + counts["extension"] + counts["mime"] + counts["archived"]
    IN  /\ pc # "start" => sum = Len(actions)
        /\ pc = "done" => sum = counts["scanned"]

\* C4: a dry run leaves the filesystem as it was: the same files with the same contents
\* at the same paths (every discovered file at its original path, no new destination
\* file) and the same directories (no dated archive folder created).
C4_DryRunLeavesFilesystem ==
    dry_run =>
        /\ fsFiles = fs0Files
        /\ fsDirs = fs0Dirs
        /\ \A n \in entries :
              /\ Append(downloads, n) \in DOMAIN fsFiles
              /\ fsFiles[Append(downloads, n)] = FileAt(Append(downloads, n))

\* C4's case: a dry run is over that planned two files, one of them into the dated
\* archive folder, which does not exist
C4_Witness ==
    /\ dry_run /\ pc = "done" /\ Len(actions) = 2
    /\ \E i \in Routed :
          /\ actions[i].stage = "archive"
          /\ Parent(actions[i].destination) = Append(archive_base, today)
          /\ ~Exists(Parent(actions[i].destination), fsFiles, fsDirs)

\* the directory is the archive root or a descendant of it
UnderArchive(dir) ==
    Len(dir) >= Len(archive_base) /\ SubSeq(dir, 1, Len(archive_base)) = archive_base

\* C5: in an execute run a missing destination parent is created only under the archive
\* root: every directory the run has created is the archive root or a descendant of it, and a file
\* whose destination parent was missing elsewhere (a sibling whose path text begins with
\* the archive root's included) is error-tagged and stays where it was.
C5_CreatesOnlyUnderArchive ==
    ~dry_run =>
        /\ \A d \in fsDirs \ fs0Dirs : UnderArchive(d)
        /\ \A i \in Routed :
              ~UnderArchive(Parent(actions[i].destination))
                  => Parent(actions[i].destination) \in fs0Dirs

\* C6: no half-moved outcome when an execute run is over: a routed file is at its
\* destination, complete, and gone from its source; an error-tagged file is still at its
\* source, complete, and no other path holds a copy or a part of it.
C6_NoHalfMove ==
    (~dry_run /\ pc = "done") =>
        \A i \in Recorded :
            IF i \in Routed
            THEN /\ actions[i].destination \in DOMAIN fsFiles
                 /\ fsFiles[actions[i].destination] = FileAt(SrcOf(i))
                 /\ SrcOf(i) \notin DOMAIN fsFiles
            ELSE /\ SrcOf(i) \in DOMAIN fsFiles
                 /\ fsFiles[SrcOf(i)] = FileAt(SrcOf(i))
                 /\ \A p \in (DOMAIN fsFiles) \ {SrcOf(i)} : fsFiles[p].id # SrcOf(i)

\* the directories and file names C7 quantifies over
ProbeDirs ==
    {PathOf(TargetK.text), PathOf(TargetE.text), Append(archive_base, today), downloads}

\* C7: on every filesystem a run reaches, for every directory and file name,
\* make_collision_safe_target returns a path that does not exist: dir/filename when
\* that is free, otherwise dir/"stem (n)ext" for the smallest n >= 1 that is free, n
\* being at most one more than the number of existing paths; r.t taken gives
\* "r (1).t", and that taken too gives "r (2).t".
C7_CollisionSafeTarget ==
    /\ \A d \in ProbeDirs, n \in Names :
          LET r == make_collision_safe_target(d, n, fsFiles, fsDirs)
              existing == Cardinality(DOMAIN fsFiles) + Cardinality(fsDirs)
          IN  /\ ~Exists(r, fsFiles, fsDirs)
              /\ ~Exists(Append(d, n), fsFiles, fsDirs) => r = Append(d, n)
              /\ Exists(Append(d, n), fsFiles, fsDirs) =>
                    \E k \in 1..(existing + 1) :
                        /\ r = Append(d, PathStem(n) \o <<" ", "(">> \o ToDecimal(k)
                                             \o <<")">> \o PathSuffix(n))
                        /\ \A m \in 1..(k - 1) :
                              Exists(Candidate(d, n, m), fsFiles, fsDirs)
    /\ LET e  == PathOf(TargetE.text)
           r0 == Append(e, <<"r", ".", "t">>)
           r1 == Append(e, <<"r", " ", "(", "1", ")", ".", "t">>)
           r2 == Append(e, <<"r", " ", "(", "2", ")", ".", "t">>)
           r  == make_collision_safe_target(e, <<"r", ".", "t">>, fsFiles, fsDirs)
       IN  /\ (r0 \in DOMAIN fsFiles /\ r1 \notin DOMAIN fsFiles) => r = r1
           /\ (r0 \in DOMAIN fsFiles /\ r1 \in DOMAIN fsFiles /\ r2 \notin DOMAIN fsFiles)
                  => r = r2

\* C7's case: a file named r.t was given the destination /e/r (2).t, r.t and r (1).t
\* being taken
C7_Witness ==
    \E i \in Routed :
        /\ files[i] = <<"r", ".", "t">>
        /\ actions[i].destination =
               Append(PathOf(TargetE.text), <<"r", " ", "(", "2", ")", ".", "t">>)

\* C8: the processing order does not depend on the order in which the directory listing
\* yields the entries: every listing order of the same entries gives the same `files`.
C8_OrderIndependent ==
    pc # "start" => \A listing \in Orders(entries) : discover_files(listing, fs0Dirs) = files

\* C9: for every routed file some keyword key matches, the decision is the keyword rule
\* of the earliest-inserted matching key: that key is the rule key and its target the
\* destination directory.
C9_FirstKeywordWins ==
    \A i \in Routed :
        KeywordHits(files[i]) # {} =>
            LET first == CHOOSE h \in KeywordHits(files[i]) :
                             \A j \in KeywordHits(files[i]) : h <= j
            IN  /\ actions[i].stage = "keyword"
                /\ actions[i].rule = Str(keyword_map[first].key)
                /\ keyword_map[first].target.isStr
                /\ Parent(actions[i].destination) = PathOf(keyword_map[first].target.text)

\* C10: the destinations of the routed files are pairwise distinct and none of them is a
\* path that existed when the run started.
C10_DistinctFreshDestinations ==
    /\ \A i, j \in Routed : i # j => actions[i].destination # actions[j].destination
    /\ \A i \in Routed : ~Exists(actions[i].destination, fs0Files, fs0Dirs)

====
